---- MODULE Spec2Model ----
(***************************************************************************)
(* Model of Scripts/CI/README_Metadata_StyleCheck/description_differ.py:   *)
(* the description consistency checker (catalog / README / metadata).      *)
(*                                                                         *)
(* Python strings are modelled as sequences of one-character strings, so   *)
(* that splitting, stripping and regular-expression matching are computed  *)
(* character by character as the library functions compute them.           *)
(***************************************************************************)
EXTENDS Integers, Sequences, FiniteSets, TLC

VARIABLES
    pc,               \* position of the program (or of the function under test)
    input,            \* argument of the function under test
    output,           \* its result
    args,             \* the parsed command line: [all, single]
    plist_file,       \* ContentPList.plist: [loadable, data]
    dir_name,         \* the folder tree: the name of each directory
    walk_stack,       \* os.walk: directories still to be yielded, next first
    root,             \* os.walk: the directory being yielded
    dirs_todo,        \* the "for dir_name in dirs" loop: sub-folders left
    exception_count,  \* all_samples' counter
    raised,           \* the exception that reached __main__ (NoExc: none)
    exit_code,        \* the process exit code (None while running)
    mode,             \* history: the branch main took
    visited,          \* history: folders passed to single_sample
    skipped,          \* history: folders all_samples skipped as empty
    failed,           \* history: folders whose single_sample raised
    last,             \* history: the sample the latest step checked, its
                      \*   files and its outcome (NoSample: it checked none)
    n_aggregate       \* history: times the aggregate exception was raised

pureVars == <<input, output>>
progVars == <<args, plist_file, dir_name, walk_stack, root, dirs_todo,
              exception_count, raised, exit_code, mode, visited, skipped,
              failed, last, n_aggregate>>
vars == <<pc, input, output, args, plist_file, dir_name, walk_stack, root,
          dirs_todo, exception_count, raised, exit_code, mode, visited,
          skipped, failed, last, n_aggregate>>

None == "None"

\* ---------------------------------------------------------------- bounds
MaxLen == 4        \* longest string given to get_first_sentence
MaxLines == 4      \* most lines of a README given to the README parser
NumDirs == 6       \* directories of the folder tree, the root included
MaxDescLen == 3    \* longest README / metadata description of SpecCompare

\* ------------------------------------------------------- string helpers
Strings(A, n) == UNION {[1..k -> A] : k \in 0..n}

\* The file's text: the lines, each but the last followed by a line break,
\* the last one too when final_break.
RECURSIVE JoinLines(_, _)
JoinLines(ls, final_break) ==
    IF ls = <<>> THEN <<>>
    ELSE IF Len(ls) = 1 THEN ls[1] \o (IF final_break THEN <<"\n">> ELSE <<>>)
    ELSE ls[1] \o <<"\n">> \o JoinLines(Tail(ls), final_break)

\* The characters of the active regular expression of sub_special_char,
\* '[@_!#$%^&*<>?|/\\}{~:]': in the class, \} is a literal brace, so the
\* backslash itself and the parentheses are NOT in the set.
SpecialChars ==
    {"@", "_", "!", "#", "$", "%", "^", "&", "*", "<", ">", "?", "|", "/",
     "}", "{", "~", ":"}

\* Mutant: the character class of the commented-out expression of line 46,
\* which also holds the parentheses.
RECURSIVE sub_special_char_commented(_)
sub_special_char_commented(string) ==
    IF string = <<>> THEN <<>>
    ELSE (IF Head(string) \in SpecialChars \cup {"(", ")"}
          THEN <<>> ELSE <<Head(string)>>)
         \o sub_special_char_commented(Tail(string))

\* re.sub(regex, '', string): drop every character of the class.
RECURSIVE sub_special_char(_)
sub_special_char(string) ==
    IF string = <<>> THEN <<>>
    ELSE (IF Head(string) \in SpecialChars THEN <<>> ELSE <<Head(string)>>)
         \o sub_special_char(Tail(string))

\* str.split(sep) for a one-character separator: the list of the pieces
\* between separators (always at least one piece, possibly empty).
RECURSIVE str_split(_, _)
str_split(s, sep) ==
    IF \A i \in 1..Len(s) : s[i] # sep THEN <<s>>
    ELSE LET i == CHOOSE k \in 1..Len(s) :
                      s[k] = sep /\ \A m \in 1..(k - 1) : s[m] # sep
         IN  <<SubSeq(s, 1, i - 1)>> \o str_split(SubSeq(s, i + 1, Len(s)), sep)

\* get_first_sentence: sub_special_char(s.split('.')[0] + '.')
get_first_sentence(s) == sub_special_char(str_split(s, ".")[1] \o <<".">>)

\* --------------------------------------------------- results, exceptions
\* A call either returns a value or raises an exception.  An exception is
\* [type, text, name]: its Python type, its message, and the sample name the
\* message carries (None when the message names no sample; an OSError of a
\* sample's file names the file's path, the sample's folder with it).
Exc(type, text, name) == [type |-> type, text |-> text, name |-> name]
Return(v) == [raised |-> FALSE, value |-> v, exc |-> None]
Raise(e) == [raised |-> TRUE, value |-> None, exc |-> e]

\* --------------------------------------------------------- README parsing
\* \s of the re module, restricted to the whitespace the modelled documents
\* contain; "\n" is the only line boundary in them.
Whitespace == {" ", "\t", "\n"}

\* str.splitlines(): the lines of s, without their line breaks; a final line
\* break opens no further (empty) line.
RECURSIVE str_splitlines(_)
str_splitlines(s) ==
    IF s = <<>> THEN <<>>
    ELSE IF \A i \in 1..Len(s) : s[i] # "\n" THEN <<s>>
    ELSE LET i == CHOOSE k \in 1..Len(s) :
                      s[k] = "\n" /\ \A m \in 1..(k - 1) : s[m] # "\n"
         IN  <<SubSeq(s, 1, i - 1)>> \o str_splitlines(SubSeq(s, i + 1, Len(s)))

\* str.strip(): drop leading and trailing whitespace.
RECURSIVE str_strip(_)
str_strip(s) ==
    IF s = <<>> THEN <<>>
    ELSE IF Head(s) \in Whitespace THEN str_strip(Tail(s))
    ELSE IF s[Len(s)] \in Whitespace THEN str_strip(SubSeq(s, 1, Len(s) - 1))
    ELSE s

\* Whether r'^#{2}(?!#)\s(.*)' (re.MULTILINE) matches at position i of c:
\* i starts a line, two markers follow, the next character is not a third
\* marker and is a whitespace character (\s also accepts the line break).
pattern_matches_at(c, i) ==
    /\ i = 1 \/ c[i - 1] = "\n"
    /\ i + 2 <= Len(c)
    /\ c[i] = "#" /\ c[i + 1] = "#"
    /\ c[i + 2] # "#"
    /\ c[i + 2] \in Whitespace

\* re.split(pattern, readme_contents)[0]: the text before the first match,
\* the whole text when nothing matches.
readme_parts_0(c) ==
    IF \E i \in 1..Len(c) : pattern_matches_at(c, i)
    THEN LET i == CHOOSE k \in 1..Len(c) :
                      /\ pattern_matches_at(c, k)
                      /\ \A m \in 1..(k - 1) : ~pattern_matches_at(c, m)
         IN  SubSeq(c, 1, i - 1)
    ELSE c

FormatErrorText == "README should contain title, description and image."

\* Mutant: whitespace-only lines are ruled out too.
get_readme_description_blank(head_string) ==
    LET parts == SelectSeq(str_splitlines(head_string),
                           LAMBDA l : str_strip(l) # <<>>)
    IN  IF Len(parts) < 3
        THEN Raise(Exc("Exception", FormatErrorText, None))
        ELSE Return(str_strip(parts[2]))

\* get_readme_description(head_string), lines 113-125.
get_readme_description(head_string) ==
    LET parts == SelectSeq(str_splitlines(head_string), LAMBDA l : l # <<>>)
    IN  IF Len(parts) < 3
        THEN Raise(Exc("Exception", FormatErrorText, None))
        ELSE Return(str_strip(parts[2]))

\* A text file of a sample folder: whether it can be opened and read, and
\* its contents.
TextFile(c) == [readable |-> TRUE, contents |-> c]
NoFile == [readable |-> FALSE, contents |-> <<>>]

\* A line written to the console: its text and the sample name it carries
\* (None when it names no sample).
Line(text, name) == [text |-> text, name |-> name]

\* Sample.get_readme_description, lines 169-182: [result, printed], printed
\* being the lines written to the console.
Sample_get_readme_description(folder_name, readme_file) ==
    IF ~readme_file.readable
    THEN [result  |-> Raise(Exc("OSError", "No such file or directory", folder_name)),
          printed |-> <<Line("Error reading README", folder_name)>>]
    ELSE [result  |-> get_readme_description(readme_parts_0(readme_file.contents)),
          printed |-> <<>>]

\* ------------------------------------------------------------ global sets
categories ==
    {"Maps", "Layers", "Features", "Display information", "Search",
     "Edit data", "Geometry", "Route and directions", "Analysis",
     "Cloud and portal", "Scenes", "Utility network", "Augmented reality"}

excluded_samples ==
    {"Map loaded", "Animate 3D graphic", "Densify and generalize",
     "Add graphics with renderer"}

plist_json_categories_mapping ==
    [c \in {"Maps", "Layers", "Features", "Display Information", "Search",
            "Edit Data", "Geometry", "Route & Directions", "Analysis",
            "Cloud & Portal", "Scenes", "Utility Network", "Augmented Reality"}
     |-> CASE c = "Display Information" -> "Display information"
           [] c = "Edit Data"           -> "Edit data"
           [] c = "Route & Directions"  -> "Route and directions"
           [] c = "Cloud & Portal"      -> "Cloud and portal"
           [] c = "Utility Network"     -> "Utility network"
           [] c = "Augmented Reality"   -> "Augmented reality"
           [] OTHER                     -> c]

\* dict.get: None for a category the table does not hold.
get_plist_cat_mapping(plist_category) ==
    IF plist_category \in DOMAIN plist_json_categories_mapping
    THEN plist_json_categories_mapping[plist_category]
    ELSE None

\* ---------------------------------------------------------- sample loader
\* README.metadata.json: whether it can be opened, whether it is valid JSON,
\* and the object it holds (a function from its keys).
JsonFile(data) == [readable |-> TRUE, valid |-> TRUE, data |-> data]
InvalidJsonFile == [readable |-> TRUE, valid |-> FALSE, data |-> <<>>]
NoJsonFile == [readable |-> FALSE, valid |-> FALSE, data |-> <<>>]

\* Sample.get_json_description, lines 157-167.
Sample_get_json_description(folder_name, json_file) ==
    IF ~json_file.readable
    THEN [result  |-> Raise(Exc("OSError", "No such file or directory", folder_name)),
          printed |-> <<Line("Error reading JSON", folder_name)>>]
    ELSE IF ~json_file.valid
    THEN [result  |-> Raise(Exc("JSONDecodeError", "Expecting value", None)),
          printed |-> <<Line("Error reading JSON", folder_name)>>]
    ELSE IF "description" \notin DOMAIN json_file.data
    THEN [result  |-> Raise(Exc("KeyError", "'description'", None)),
          printed |-> <<>>]
    ELSE [result  |-> Return(json_file.data["description"]), printed |-> <<>>]

\* Sample.__init__, lines 140-155: the metadata description is loaded first,
\* then the README description; the first failure ends the construction.
Sample(folder_name, folder_category, json_file, readme_file) ==
    LET j == Sample_get_json_description(folder_name, json_file)
        r == Sample_get_readme_description(folder_name, readme_file)
    IN  IF j.result.raised
        THEN [result |-> j.result, printed |-> j.printed]
        ELSE IF r.result.raised
        THEN [result |-> r.result, printed |-> j.printed \o r.printed]
        ELSE [result  |-> Return([folder_name        |-> folder_name,
                                   folder_category    |-> folder_category,
                                   json_description   |-> j.result.value,
                                   readme_description |-> r.result.value]),
              printed |-> <<>>]

\* ------------------------------------------------------------- comparator
\* Mutant: the exact comparison alone, without the first-sentence rule.
descriptions_differ_exact(p, d) == p # d

\* Lines 207 and 213: the test is "p != d and p != get_first_sentence(d)".
descriptions_differ(p, d) == p # d /\ p # get_first_sentence(d)

\* Mutant: the metadata comparison made only when the README one passed.
mismatch_lines_elif(p, r, j) ==
    IF descriptions_differ(p, r)
    THEN <<Line("plist does not match README description", None)>>
    ELSE IF descriptions_differ(p, j)
    THEN <<Line("plist does not match json.description", None)>>
    ELSE <<>>

\* Lines 203-216: the console lines of the two comparisons, in order; their
\* number is err_count.
mismatch_lines(p, r, j) ==
    (IF descriptions_differ(p, r)
     THEN <<Line("plist does not match README description", None)>> ELSE <<>>)
    \o
    (IF descriptions_differ(p, j)
     THEN <<Line("plist does not match json.description", None)>> ELSE <<>>)

\* single_sample_check_diff, lines 186-220: [result, printed, compared,
\* err_count]; compared tells whether the description comparisons were
\* reached, err_count is their number of mismatches (0 when not reached).
Outcome(result, printed, compared, err_count) ==
    [result |-> result, printed |-> printed, compared |-> compared,
     err_count |-> err_count]

single_sample_check_diff(folder_name, folder_category, json_file, readme_file, plist) ==
    LET made == Sample(folder_name, folder_category, json_file, readme_file)
        sample == made.result.value
        plist_cats == SelectSeq(plist, LAMBDA d :
                          get_plist_cat_mapping(d.displayName) = folder_category)
        plist_children == plist_cats[1].children
        plist_names == SelectSeq(plist_children, LAMBDA d :
                           d.displayName = folder_name)
        p == plist_names[1].descriptionText
        lines == mismatch_lines(p, sample.readme_description,
                                sample.json_description)
        err_count == Len(lines)
    IN  IF made.result.raised
        THEN Outcome(made.result, made.printed, FALSE, 0)
        ELSE IF folder_name \in excluded_samples
        THEN Outcome(Return(None), <<>>, FALSE, 0)
        ELSE IF plist_cats = <<>> \/ plist_names = <<>>
        THEN Outcome(Raise(Exc("IndexError", "list index out of range", None)),
                     <<>>, FALSE, 0)
        ELSE IF err_count > 0
        THEN Outcome(Raise(Exc("Exception", "error(s) occurred during checking",
                               folder_name)),
                     lines, TRUE, err_count)
        ELSE Outcome(Return(None), <<>>, TRUE, 0)

\* single_sample, lines 254-265: re-raises whatever the check raises.
single_sample(folder_name, folder_category, json_file, readme_file, plist) ==
    single_sample_check_diff(folder_name, folder_category, json_file,
                             readme_file, plist)

\* ------------------------------------------------------------ folder tree
\* Directories are numbered 0..NumDirs-1, 0 being the path given to --all.
\* Every even directory holds two sub-directories (the next odd and the next
\* even one), so the tree has sibling folders at every depth.
Dirs == 0..(NumDirs - 1)
Parent(n) == IF n % 2 = 1 THEN n - 1 ELSE n - 2
Children(d) == {n \in Dirs \ {0} : Parent(n) = d}
RootName == "arcgis-ios-sdk-samples"
DirNames == {"Display information", "Display a map", "Map loaded"}

\* The sub-directories of d as os.walk lists them (here in the order of
\* their numbers).
RECURSIVE SortedSeq(_)
SortedSeq(S) ==
    IF S = {} THEN <<>>
    ELSE LET m == CHOOSE x \in S : \A y \in S : x <= y
         IN  <<m>> \o SortedSeq(S \ {m})
listed_dirs(d) == SortedSeq(Children(d))

\* The content of a sample folder besides its sub-directories.
Folder(ds, jf, rf) == [ds_store |-> ds, json_file |-> jf, readme_file |-> rf]

\* os.listdir(sample_path) without the names starting with '.DS_Store',
\* line 240-241.
visible_entries(n, folder) ==
    {dir_name[c] : c \in Children(n)}
    \cup (IF folder.json_file.readable THEN {"README.metadata.json"} ELSE {})
    \cup (IF folder.readme_file.readable THEN {"README.md"} ELSE {})

\* ------------------------------------------------------------ the program
NoExc == Exc(None, None, None)
NoSample == [checked |-> FALSE]

\* bool(value) of an argparse value: None (not supplied) and '' are false.
truthy(v) == v # None /\ v # ""

\* The node --single names, and the node --all names.
SingleNode == 3
AllNode == 0

\* load_plist, lines 78-87, and the emptiness test of lines 285 and 297.
load_plist(file) ==
    IF ~file.loadable
    THEN Raise(Exc("OSError", "No such file or directory", None))
    ELSE Return(file.data)

\* main, lines 268-305: the branch taken and the exception raised before
\* any sample is looked at.
main_dispatch(a, file) ==
    LET loaded == load_plist(file)
        start(m) == IF loaded.raised THEN [mode |-> m, run |-> FALSE, exc |-> loaded.exc]
                    ELSE IF loaded.value = <<>>
                    THEN [mode |-> m, run |-> FALSE,
                          exc |-> Exc("Exception", "Error loading plist.", None)]
                    ELSE [mode |-> m, run |-> TRUE, exc |-> NoExc]
    IN  IF truthy(a.all) THEN start("all")
        ELSE IF truthy(a.single) THEN start("single")
        ELSE [mode |-> "invalid", run |-> FALSE,
              exc |-> Exc("Exception", "Invalid arguments, abort.", None)]

Main ==
    /\ pc = "main"
    /\ LET d == main_dispatch(args, plist_file)
       IN  /\ mode' = d.mode
           /\ raised' = d.exc
           /\ pc' = IF ~d.run THEN "exit"
                    ELSE IF d.mode = "all" THEN "all_samples" ELSE "single_sample"
           /\ walk_stack' = IF d.run /\ d.mode = "all" THEN <<AllNode>> ELSE <<>>
    /\ UNCHANGED <<pureVars, args, plist_file, dir_name, root, dirs_todo,
                   exception_count, exit_code, visited, skipped, failed, last,
                   n_aggregate>>

\* Mutant: every folder but an excluded one counts as a category folder.
is_category_not_excluded(parent_folder_name) ==
    parent_folder_name \notin excluded_samples

\* Line 236: whether os.walk's current directory is a category folder.
is_category(parent_folder_name) == parent_folder_name \in categories

\* One iteration of "for root, dirs, files in os.walk(path)", lines 232-237,
\* up to the start of the inner loop.
WalkNext ==
    /\ pc = "all_samples"
    /\ dirs_todo = <<>>
    /\ walk_stack # <<>>
    /\ LET d == Head(walk_stack)
           dirs == listed_dirs(d)
       IN     /\ root' = d
              /\ walk_stack' = dirs \o Tail(walk_stack)
              /\ dirs_todo' = IF is_category(dir_name[d]) THEN dirs ELSE <<>>
    /\ last' = NoSample
    /\ UNCHANGED <<pc, pureVars, args, plist_file, dir_name, exception_count,
                   raised, exit_code, mode, visited, skipped, failed,
                   n_aggregate>>

\* The files a sample folder may hold.
MainDescs == {<<"a", ".">>, <<"b", ".">>}
JsonFiles ==
    {NoJsonFile, InvalidJsonFile, JsonFile([k \in {"category"} |-> <<"M">>])}
    \cup {JsonFile([k \in {"description"} |-> d]) : d \in MainDescs}
ReadmeFiles ==
    {NoFile, TextFile(JoinLines(<<<<"t">>, <<"a", ".">>>>, TRUE))}
    \cup {TextFile(JoinLines(<<<<"t">>, <<>>, d, <<"i">>>>, TRUE)) : d \in MainDescs}
Folders == {Folder(ds, jf, rf) : ds \in BOOLEAN, jf \in JsonFiles, rf \in ReadmeFiles}

\* Lines 239-242: a folder holding nothing but .DS_Store entries is skipped.
SkipEmptyFolder ==
    /\ pc = "all_samples"
    /\ dirs_todo # <<>>
    /\ LET n == Head(dirs_todo)
       IN  /\ \E f \in Folders : visible_entries(n, f) = {}
           /\ skipped' = skipped \cup {n}
    /\ dirs_todo' = Tail(dirs_todo)
    /\ last' = NoSample
    /\ UNCHANGED <<pc, pureVars, args, plist_file, dir_name, walk_stack, root,
                   exception_count, raised, exit_code, mode, visited, failed,
                   n_aggregate>>

\* Mutant: only exceptions raised as plain Exception are caught.
all_samples_catches_plain(exc) == exc.type = "Exception"

\* "except Exception" of line 245: every exception of the check is one.
all_samples_catches(exc) == TRUE

\* Lines 243-247: one sample is checked; a failure is counted and printed.
CheckSample ==
    /\ pc = "all_samples"
    /\ dirs_todo # <<>>
    /\ LET n == Head(dirs_todo)
       IN  \E f \in Folders :
              /\ visible_entries(n, f) # {}
              /\ LET o == single_sample(dir_name[n], dir_name[root], f.json_file,
                                        f.readme_file, plist_file.data)
                     caught == o.result.raised /\ all_samples_catches(o.result.exc)
                     escaped == o.result.raised /\ ~all_samples_catches(o.result.exc)
                 IN  /\ visited' = visited \cup {n}
                     /\ failed' = IF o.result.raised THEN failed \cup {n} ELSE failed
                     /\ exception_count' = IF caught THEN exception_count + 1
                                           ELSE exception_count
                     /\ last' = [checked |-> TRUE, node |-> n,
                                 json_file |-> f.json_file,
                                 readme_file |-> f.readme_file,
                                 outcome |-> IF caught
                                     THEN [o EXCEPT !.printed =
                                             @ \o <<Line(o.result.exc.text,
                                                         o.result.exc.name)>>]
                                     ELSE o]
                     /\ pc' = IF escaped THEN "exit" ELSE pc
                     /\ raised' = IF escaped THEN o.result.exc ELSE raised
    /\ dirs_todo' = Tail(dirs_todo)
    /\ UNCHANGED <<pureVars, args, plist_file, dir_name, walk_stack, root,
                   exit_code, mode, skipped, n_aggregate>>

\* Mutant: a single failure does not raise.
aggregate_raised_late(count) == count > 1

\* Line 250: whether all_samples raises its aggregate exception.
aggregate_raised(count) == count > 0

\* Lines 249-251: the walk is over.
WalkFinish ==
    /\ pc = "all_samples"
    /\ dirs_todo = <<>>
    /\ walk_stack = <<>>
    /\ raised' = IF aggregate_raised(exception_count)
                 THEN Exc("Exception",
                          "Error(s) occurred during checking all samples.", None)
                 ELSE NoExc
    /\ n_aggregate' = IF aggregate_raised(exception_count)
                      THEN n_aggregate + 1 ELSE n_aggregate
    /\ pc' = "exit"
    /\ last' = NoSample
    /\ UNCHANGED <<pureVars, args, plist_file, dir_name, walk_stack, root,
                   dirs_todo, exception_count, exit_code, mode, visited,
                   skipped, failed>>

\* Lines 300-303: main's single-sample branch.
SingleSampleRun ==
    /\ pc = "single_sample"
    /\ \E f \in Folders :
          LET n == SingleNode
              o == single_sample(dir_name[n], dir_name[Parent(n)], f.json_file,
                                 f.readme_file, plist_file.data)
          IN  /\ visited' = visited \cup {n}
              /\ failed' = IF o.result.raised THEN failed \cup {n} ELSE failed
              /\ last' = [checked |-> TRUE, node |-> n,
                          json_file |-> f.json_file,
                          readme_file |-> f.readme_file, outcome |-> o]
              /\ raised' = IF o.result.raised THEN o.result.exc ELSE NoExc
    /\ pc' = "exit"
    /\ UNCHANGED <<pureVars, args, plist_file, dir_name, walk_stack, root,
                   dirs_todo, exception_count, exit_code, mode, skipped,
                   n_aggregate>>

\* Lines 309-314: the exit code of the process.
exit_status(exc) == IF exc # NoExc THEN 1 ELSE 0

ProgramExit ==
    /\ pc = "exit"
    /\ exit_code' = exit_status(raised)
    /\ pc' = "exited"
    /\ last' = NoSample
    /\ UNCHANGED <<pureVars, args, plist_file, dir_name, walk_stack, root,
                   dirs_todo, exception_count, raised, mode, visited, skipped,
                   failed, n_aggregate>>

\* The catalogs: a child entry per sample name, under one category.
CatalogDesc == <<"a", ".">>
Entry(name) == [displayName |-> name, descriptionText |-> CatalogDesc]
Category(name, children) == [displayName |-> name, children |-> children]
PlistFiles ==
    { [loadable |-> FALSE, data |-> <<>>],
      [loadable |-> TRUE, data |-> <<>>],
      [loadable |-> TRUE,
       data |-> <<Category("Maps", <<Entry("Display a map")>>),
                  Category("Display Information",
                           <<Entry("Map loaded"), Entry("Display a map")>>)>>],
      [loadable |-> TRUE,
       data |-> <<Category("Display Information", <<Entry("Map loaded")>>)>>],
      [loadable |-> TRUE,
       data |-> <<Category("Maps", <<Entry("Display a map")>>)>>] }

\* The trees: every directory but the root takes a name of DirNames, and
\* sibling folders have different names.
TreeNames ==
    {t \in [Dirs -> DirNames \cup {RootName}] :
        /\ t[0] = RootName
        /\ \A n \in Dirs \ {0} : t[n] \in DirNames
        /\ \A n, m \in Dirs \ {0} : (n # m /\ Parent(n) = Parent(m)) => t[n] # t[m]}

ProgIdle ==
    /\ args = None /\ plist_file = None /\ dir_name = None
    /\ walk_stack = <<>> /\ root = None /\ dirs_todo = <<>>
    /\ exception_count = 0 /\ raised = NoExc /\ exit_code = None
    /\ mode = None /\ visited = {} /\ skipped = {} /\ failed = {}
    /\ last = NoSample /\ n_aggregate = 0

Init ==
    /\ pc = "main"
    /\ input = None /\ output = None
    /\ args \in [all : {None, "", "path"}, single : {None, "", "path"}]
    /\ plist_file \in PlistFiles
    /\ dir_name \in TreeNames
    /\ walk_stack = <<>> /\ root = None /\ dirs_todo = <<>>
    /\ exception_count = 0 /\ raised = NoExc /\ exit_code = None
    /\ mode = None /\ visited = {} /\ skipped = {} /\ failed = {}
    /\ last = NoSample /\ n_aggregate = 0

Next ==
    \/ Main
    \/ WalkNext
    \/ SkipEmptyFolder
    \/ CheckSample
    \/ WalkFinish
    \/ SingleSampleRun
    \/ ProgramExit

Spec == Init /\ [][Next]_vars

\* ------------------------------------------- specification: SpecText
\* get_first_sentence applied to every string over TextAlphabet up to MaxLen.
TextAlphabet == {"a", " ", ".", "!", ":", "(", "\\"}

InitText ==
    /\ pc = "text_call"
    /\ input \in Strings(TextAlphabet, MaxLen)
    /\ output = None
    /\ ProgIdle

FirstSentenceCall ==
    /\ pc = "text_call"
    /\ output' = get_first_sentence(input)
    /\ pc' = "text_done"
    /\ UNCHANGED <<input, progVars>>

NextText == FirstSentenceCall

SpecText == InitText /\ [][NextText]_vars

\* ----------------------------------------- specification: SpecReadme
\* Sample.get_readme_description applied to every README made of at most
\* MaxLines lines drawn from ReadmeLines, with or without a final line break.
ReadmeLines ==
    { <<>>,                          \* an empty line
      <<" ">>,                       \* a whitespace-only line
      <<"a">>,                       \* a line of text
      <<" ", "b", " ">>,             \* a line of text with surrounding blanks
      <<"#", "#", " ", "h">>,        \* ## h
      <<"#", "#", "#", " ", "h">>,   \* ### h
      <<"#", "#">>,                  \* ## alone on its line
      <<"#", "#", "h">> }            \* ##h

InitReadme ==
    /\ pc = "readme_call"
    /\ \E ls \in Strings(ReadmeLines, MaxLines), fb \in BOOLEAN :
           input = [lines |-> ls, final_break |-> fb,
                    contents |-> JoinLines(ls, fb)]
    /\ output = None
    /\ ProgIdle

ReadmeCall ==
    /\ pc = "readme_call"
    /\ output' = Sample_get_readme_description("Display a map",
                                                TextFile(input.contents)).result
    /\ pc' = "readme_done"
    /\ UNCHANGED <<input, progVars>>

NextReadme == ReadmeCall

SpecReadme == InitReadme /\ [][NextReadme]_vars

\* ---------------------------------------- specification: SpecCompare
\* single_sample_check_diff applied to the sample "Display a map" of the
\* category "Maps", for every catalog description p of CatalogDescs and every
\* README description r and metadata description j of SampleDescs.
DisplayAMap ==
    <<"D", "i", "s", "p", "l", "a", "y", " ", "a", " ", "m", "a", "p", ".">>
DisplayAMapLong ==
    DisplayAMap \o
    <<" ", "I", "t", " ", "s", "h", "o", "w", "s", " ", "b", "a", "s", "e",
      "m", "a", "p", " ", "a", "n", "d", " ", "e", "x", "t", "e", "n", "t", ".">>
DescAlphabet == {"a", ".", "!"}
SampleDescs ==
    (Strings(DescAlphabet, MaxDescLen) \ {<<>>}) \cup {DisplayAMap, DisplayAMapLong}
CatalogDescs == {<<"a", ".">>, <<"a">>, <<"a", "!", ".">>, <<".">>, DisplayAMap}

InitCompare ==
    /\ pc = "compare_call"
    /\ \E p \in CatalogDescs, r \in SampleDescs, j \in SampleDescs :
           input = [p |-> p, r |-> r, j |-> j]
    /\ output = None
    /\ ProgIdle

CompareCall ==
    /\ pc = "compare_call"
    /\ output' = single_sample_check_diff(
                     "Display a map", "Maps",
                     JsonFile([k \in {"description"} |-> input.j]),
                     TextFile(JoinLines(<<<<"#", " ", "t">>, <<>>, input.r, <<>>,
                                          <<"!", "[", "i", "]">>>>, TRUE)),
                     <<[displayName |-> "Maps",
                        children |-> <<[displayName |-> "Display a map",
                                        descriptionText |-> input.p]>>]>>)
    /\ pc' = "compare_done"
    /\ UNCHANGED <<input, progVars>>

NextCompare == CompareCall

SpecCompare == InitCompare /\ [][NextCompare]_vars

\* =================================================================== claims
\* Definitions used to state the claims, written from the claims' words.
\* An argument is supplied when the command line gives it a path.
Supplied(v) == v = "path"
\* The catalog holds an entry for folder n under n's parent folder.
InCatalog(n) ==
    \E c \in DOMAIN plist_file.data :
        /\ get_plist_cat_mapping(plist_file.data[c].displayName) = dir_name[Parent(n)]
        /\ \E e \in DOMAIN plist_file.data[c].children :
               plist_file.data[c].children[e].displayName = dir_name[n]
\* The folder's metadata or README description is not the catalog's.
OtherDesc == <<"b", ".">>
DescribedOtherwise(jf, rf) ==
    \/ jf = JsonFile([k \in {"description"} |-> OtherDesc])
    \/ rf = TextFile(JoinLines(<<<<"t">>, <<>>, OtherDesc, <<"i">>>>, TRUE))
CatalogLoaded == plist_file.loadable /\ plist_file.data # <<>>
\* The folders a whole-tree run owes a look: the sub-folders of folders
\* named as a category.
SampleFolders == {n \in Dirs \ {0} : dir_name[Parent(n)] \in categories}
MetadataBroken(jf) ==
    ~jf.readable \/ ~jf.valid \/ "description" \notin DOMAIN jf.data
ShortReadme == TextFile(JoinLines(<<<<"t">>, <<"a", ".">>>>, TRUE))
ReadmeBroken(rf) == ~rf.readable \/ rf = ShortReadme
\* The text of s before its first period (all of s when it has none).
BeforeFirstPeriod(s) ==
    IF \E i \in 1..Len(s) : s[i] = "."
    THEN SubSeq(s, 1, (CHOOSE i \in 1..Len(s) :
                          s[i] = "." /\ \A k \in 1..(i - 1) : s[k] # ".") - 1)
    ELSE s
FirstSentenceOf(s) ==
    SelectSeq(BeforeFirstPeriod(s), LAMBDA c : c \notin SpecialChars) \o <<".">>
PairMatches(p, d) == d = p \/ FirstSentenceOf(d) = p
PairsFailing(p, r, j) ==
    (IF PairMatches(p, r) THEN 0 ELSE 1) + (IF PairMatches(p, j) THEN 0 ELSE 1)
\* A line that starts with exactly two heading markers followed by a
\* whitespace character: a blank, or the line break that ends the line.
IsHeadingLine(ls, k, final_break) ==
    LET l == ls[k]
    IN  /\ Len(l) >= 2 /\ l[1] = "#" /\ l[2] = "#"
        /\ IF Len(l) >= 3 THEN l[3] \in {" ", "\t"}
           ELSE k < Len(ls) \/ final_break
LeadLines(ls, final_break) ==
    IF \E k \in 1..Len(ls) : IsHeadingLine(ls, k, final_break)
    THEN SubSeq(ls, 1, (CHOOSE k \in 1..Len(ls) :
                           /\ IsHeadingLine(ls, k, final_break)
                           /\ \A m \in 1..(k - 1) : ~IsHeadingLine(ls, m, final_break)) - 1)
    ELSE ls
IsBlank(l) == \A i \in 1..Len(l) : l[i] \in Whitespace
Trimmed(l) ==
    IF IsBlank(l) THEN <<>>
    ELSE LET first == CHOOSE i \in 1..Len(l) :
                 l[i] \notin Whitespace /\ \A k \in 1..(i - 1) : l[k] \in Whitespace
             final == CHOOSE i \in 1..Len(l) :
                 l[i] \notin Whitespace /\ \A k \in (i + 1)..Len(l) : l[k] \in Whitespace
         IN  SubSeq(l, first, final)
\* What the README parser owes for the lines `kept` of the lead section.
ReadmeResultIs(kept) ==
    IF Len(kept) < 3
    THEN output.raised /\ output.exc.text = FormatErrorText
    ELSE ~output.raised /\ output.value = Trimmed(kept[2])

\* C1 (as claimed): a sample whose folder name is in the exclusion set is
\* never checked, whatever its files hold: its check raises nothing, prints
\* nothing and it never counts as a failure.
C1_ExcludedNeverFails ==
    /\ \A n \in failed : dir_name[n] \notin excluded_samples
    /\ (last.checked /\ dir_name[last.node] \in excluded_samples)
           => (~last.outcome.result.raised /\ last.outcome.printed = <<>>)

\* C2 (as claimed): main runs a check only when exactly one of --all and
\* --single is supplied; with neither or both it fails with the
\* invalid-arguments error and checks no sample.
C2_ModesExclusive ==
    mode # None =>
        IF Supplied(args.all) # Supplied(args.single)
        THEN mode \in {"all", "single"}
        ELSE /\ mode = "invalid"
             /\ raised.text = "Invalid arguments, abort."
             /\ visited = {}

\* C3: in a whole-tree run every failing sample (broken metadata, broken
\* README, absent from the catalog, mismatch) is caught and counted once, the
\* run goes on, and at the end every non-empty sample folder under a category
\* folder has been checked and the count is the number of failed samples.
C3_FailuresCountedRunContinues ==
    mode = "all" =>
        /\ exception_count = Cardinality(failed)
        /\ failed \subseteq visited
        /\ last.checked =>
              /\ last.node \in visited
              /\ last.outcome.result.raised <=> last.node \in failed
              /\ (MetadataBroken(last.json_file) \/ ReadmeBroken(last.readme_file))
                    => last.node \in failed
              /\ (/\ dir_name[last.node] \notin excluded_samples
                  /\ \/ ~InCatalog(last.node)
                     \/ DescribedOtherwise(last.json_file, last.readme_file))
                    => last.node \in failed
        /\ (pc \in {"exit", "exited"} /\ CatalogLoaded) =>
              /\ visited \cup skipped = SampleFolders
              /\ visited \cap skipped = {}
              /\ \A n \in skipped : Children(n) = {}

C3_Witness ==
    /\ pc = "exited" /\ mode = "all"
    /\ exception_count = 2
    /\ Cardinality(visited) = 3
    /\ 3 \in failed /\ 4 \in failed /\ 5 \notin failed

\* C4: the aggregate exception is raised at most once, only when the walk
\* is over and every sample folder has been processed, and exactly when a
\* sample failed; the process exits with 1 when a sample failed or the
\* catalog could not be loaded, and with 0 otherwise, in both modes.
C4_AggregateOnceAndExitCode ==
    /\ n_aggregate <= 1
    /\ n_aggregate = 1 =>
          /\ mode = "all" /\ pc \in {"exit", "exited"}
          /\ visited \cup skipped = SampleFolders
          /\ failed # {}
    /\ (mode = "all" /\ pc \in {"exit", "exited"} /\ CatalogLoaded) =>
          (n_aggregate = 1 <=> failed # {})
    /\ (pc = "exited" /\ mode \in {"all", "single"}) =>
          exit_code = IF failed # {} \/ ~CatalogLoaded THEN 1 ELSE 0

C4_Witness ==
    /\ pc = "exited" /\ mode = "all"
    /\ n_aggregate = 1 /\ exit_code = 1
    /\ Cardinality(failed) = 1 /\ Cardinality(visited) = 3

\* C5: when the README description and the metadata description each equal
\* the catalog description or have it as their first sentence, the
\* comparator reports no mismatch and the check passes.
C5_MatchingDescriptionsPass ==
    pc = "compare_done" =>
        ((PairMatches(input.p, input.r) /\ PairMatches(input.p, input.j))
            => /\ ~output.result.raised
               /\ output.compared
               /\ output.err_count = 0
               /\ output.printed = <<>>)

C5_Witness ==
    /\ pc = "compare_done"
    /\ input.p = DisplayAMap /\ input.r = DisplayAMapLong /\ input.j = DisplayAMap
    /\ ~output.result.raised /\ output.err_count = 0

\* C6: both comparisons are always made and are independent: each failing
\* pair gives exactly one report, whatever the other pair does, the number
\* of reports is the number of failing pairs, and the check fails exactly
\* when that number is positive.
C6_ComparisonsIndependent ==
    pc = "compare_done" =>
        /\ output.compared
        /\ output.err_count = PairsFailing(input.p, input.r, input.j)
        /\ Len(output.printed) = output.err_count
        /\ Cardinality({i \in DOMAIN output.printed :
               output.printed[i].text = "plist does not match json.description"})
             = (IF PairMatches(input.p, input.j) THEN 0 ELSE 1)
        /\ Cardinality({i \in DOMAIN output.printed :
               output.printed[i].text = "plist does not match README description"})
             = (IF PairMatches(input.p, input.r) THEN 0 ELSE 1)
        /\ output.result.raised <=> output.err_count > 0

C6_Witness ==
    /\ pc = "compare_done"
    /\ ~PairMatches(input.p, input.r) /\ ~PairMatches(input.p, input.j)
    /\ output.err_count = 2 /\ output.result.raised

\* C7: in a whole-tree run a folder is handed to the comparator (or looked
\* at as a sample at all) only if its parent folder's name is in the
\* category set, at any depth of the walk.
C7_OnlyCategoryChildrenAreSamples ==
    mode = "all" =>
        /\ \A n \in visited \cup skipped :
              n # 0 /\ dir_name[Parent(n)] \in categories
        /\ \A i \in DOMAIN dirs_todo :
              dir_name[Parent(dirs_todo[i])] \in categories
        /\ last.checked => dir_name[Parent(last.node)] \in categories

C7_Witness ==
    /\ mode = "all" /\ pc = "exited"
    /\ dir_name[2] \notin categories /\ dir_name[4] \in categories
    /\ visited = {5}

\* C8: get_first_sentence(s) is the text of s before its first period (all
\* of s when it has none) without its special characters, followed by one
\* period.
C8_FirstSentence ==
    pc = "text_done" => output = FirstSentenceOf(input)

C8_Witness ==
    /\ pc = "text_done"
    /\ input = <<"a", "!", "(", "\\">>
    /\ output = <<"a", "(", "\\", ".">>

\* C9 (as claimed): in a whole-tree run a sample with a file-level or
\* parse-level error is abandoned before any description comparison, and a
\* line printed for it carries the sample's name.
C9_LoadErrorsNamed ==
    (mode = "all" /\ last.checked
        /\ (MetadataBroken(last.json_file) \/ ReadmeBroken(last.readme_file)))
        => /\ last.outcome.result.raised
           /\ ~last.outcome.compared
           /\ \E i \in DOMAIN last.outcome.printed :
                 last.outcome.printed[i].name = dir_name[last.node]

\* C10 (as claimed): the description is the second non-blank line of the
\* text before the first level-2 heading, trimmed, and the parser fails when
\* that text has fewer than three non-blank lines: neither empty nor
\* whitespace-only lines change which line is returned.
C10_BlankLinesIgnored ==
    pc = "readme_done" =>
        ReadmeResultIs(SelectSeq(LeadLines(input.lines, input.final_break),
                                 LAMBDA l : ~IsBlank(l)))

\* C10 (amended): the description is the second line of non-zero length of
\* the text before the first level-2 heading, trimmed, and the parser fails
\* when that text has fewer than three such lines: empty lines never change
\* which line is returned, a whitespace-only line counts as a line.
C10_EmptyLinesIgnored ==
    pc = "readme_done" =>
        ReadmeResultIs(SelectSeq(LeadLines(input.lines, input.final_break),
                                 LAMBDA l : l # <<>>))

C10_Witness ==
    /\ pc = "readme_done"
    /\ input.lines = <<<<"a">>, <<>>, <<" ", "b", " ">>, <<"a">>>>
    /\ ~output.raised /\ output.value = <<"b">>

====
